---- MODULE Spec2Model ----
(***************************************************************************)
(* Cloudflare DDNS integration: the reconcile cycle of                     *)
(* CloudflareDDNSCoordinator._async_update_data, the "Sync Now" button and *)
(* the "Automatic Updates" switch, with the network as the environment.    *)
(*                                                                         *)
(* One cycle is a coroutine that suspends at each outbound HTTP call.  Its *)
(* position is pc; every action below runs the code from one suspension    *)
(* point to the next, or to the return ("returned") or the UpdateFailed    *)
(* ("raised") that ends the cycle.  The coordinator base class then stores *)
(* the returned dict as data (Finish) in the same run of the event loop.   *)
(***************************************************************************)
EXTENDS Integers, Sequences, FiniteSets, TLC

VARIABLES
    config,                  \* coordinator.config and the fields __init__ copies from it
    auto_update_enabled,     \* coordinator.auto_update_enabled
    options_auto,            \* config_entry.options[CONF_AUTO_UPDATE], <<>> when absent
    manual_sync_requested,   \* coordinator._manual_sync_requested
    last_sync_time,          \* coordinator.last_sync_time, <<>> is None
    data,                    \* coordinator.data (the published status), <<>> is None
    pc,                      \* where the cycle is suspended, "idle" when none runs
    is_manual_sync,          \* local of _async_update_data
    current_ip,              \* local of _async_update_data
    dns_record_info,         \* local of _async_update_data
    put_request,             \* the PUT in flight (url record id and json body), <<>> when none
    returned,                \* the dict _async_update_data has returned, <<>> when none
    now,                     \* the wall clock read by dt_util.now()
    net_ip,                  \* environment: the public address of the host
    remote,                  \* environment: the DNS record held by the provider
    cyc,                     \* history of the cycle in flight
    prev,                    \* history of the cycle before it
    entry_data,              \* config_entry.data, <<>> before the entry is created
    entry_options,           \* the submission config_entry.options was last replaced with
    flow_result              \* what the last step of a config or options flow returned

vars == <<config, auto_update_enabled, options_auto, manual_sync_requested,
          last_sync_time, data, pc, is_manual_sync, current_ip, dns_record_info,
          put_request, returned, now, net_ip, remote, cyc, prev,
          entry_data, entry_options, flow_result>>

\* The config entry and its flows, which no step of the coordinator touches.
flow_vars == <<entry_data, entry_options, flow_result>>

-----------------------------------------------------------------------------
(* Bounds *)

\* The clock runs from 0 to MaxTime.
MaxTime == 1

-----------------------------------------------------------------------------
(* Values *)

None == << >>
Some(x) == <<x>>

IP_TYPE_EXTERNAL == "external"
IP_TYPE_INTERNAL == "internal"
AUTO_TTL == 1
DEFAULT_TTL == 120
DEFAULT_AUTO_UPDATE == TRUE
MIN_TTL == 120
MAX_TTL == 7200
DNS_RECORD == "host.example.com"

Addresses == {"1.2.3.4", "5.6.7.8"}
RecordIds == {"rec-a"}

Whitespace == {" ", "\n"}

\* str.strip(): drop the whitespace at both ends of a text body.  A body is a
\* sequence of tokens, each a whitespace character or an address.
RECURSIVE LStrip(_)
LStrip(s) == IF s # << >> /\ Head(s) \in Whitespace THEN LStrip(Tail(s)) ELSE s

RECURSIVE RStrip(_)
RStrip(s) ==
    IF s # << >> /\ s[Len(s)] \in Whitespace THEN RStrip(SubSeq(s, 1, Len(s) - 1)) ELSE s

Strip(s) == RStrip(LStrip(s))

\* The string a stripped body stands for (bodies hold at most one address).
Text(s) == IF s = << >> THEN "" ELSE s[1]

-----------------------------------------------------------------------------
(* The pure parts of the coordinator *)

\* _get_current_ip on the external path: the value returned for a response of
\* the address-echo endpoint (None on a transport error or a status other
\* than 200, the stripped body otherwise).
GetCurrentIp(resp) ==
    IF resp.err THEN None
    ELSE IF resp.status = 200 THEN Some(Text(Strip(resp.body)))
    ELSE None

\* Variant: only None ends the cycle ("if current_ip is None").
ResolutionFailedNoneOnly(ip) == ip = None

\* "if not current_ip": None and the empty string both end the cycle.
ResolutionFailed(ip) == ip = None \/ ip = Some("")

\* Variant: the success flag of the envelope is not looked at.
GetDnsRecordInfoStatusOnly(resp) ==
    IF ~resp.err /\ resp.status = 200 /\ resp.result # << >>
    THEN Some(resp.result[1])
    ELSE None

\* _get_dns_record_info: the first element of the result list, or None.
GetDnsRecordInfo(resp) ==
    IF ~resp.err /\ resp.status = 200 /\ resp.success /\ resp.result # << >>
    THEN Some(resp.result[1])
    ELSE None

\* Variant: the success flag of the envelope is not looked at.
UpdateDnsRecordStatusOnly(resp) == ~resp.err /\ resp.status = 200

\* _update_dns_record: True only for status 200 with the success flag set.
UpdateDnsRecord(resp) == ~resp.err /\ resp.status = 200 /\ resp.success

\* Variant: the proxied flag of the record is not compared.
SyncedAddressOnly(info, ip, proxied) == info.content = ip

\* Variant: "or" instead of "and".
SyncedAddressOrProxied(info, ip, proxied) == info.content = ip \/ info.proxied = proxied

\* Variant: "and is_proxied" instead of "and (is_proxied == self.proxied)".
SyncedProxiedTruthy(info, ip, proxied) == info.content = ip /\ info.proxied

\* synced = (dns_record_ip == current_ip) and (is_proxied == self.proxied)
Synced(info, ip, proxied) == info.content = ip /\ info.proxied = proxied

\* Variant: the auto-update setting is not consulted.
ShouldUpdateIgnoringAuto(manual, synced, auto) == manual \/ ~synced

\* Variant: a manual request is not looked at.
ShouldUpdateAutoOnly(manual, synced, auto) == ~synced /\ auto

\* if is_manual_sync or (not synced and self.auto_update_enabled)
ShouldUpdate(manual, synced, auto) == manual \/ (~synced /\ auto)

\* Variant: the refresh is for manual cycles.
RefreshOnCheckManual(manual, auto) == auto /\ manual

\* if self.auto_update_enabled and not is_manual_sync
RefreshOnCheck(manual, auto) == auto /\ ~manual

\* Variant: the body carries default attributes instead of the configured ones.
PutRequestDefaultAttrs(record_id, ip) ==
    [id |-> record_id, type |-> "A", name |-> DNS_RECORD, content |-> ip,
     ttl |-> DEFAULT_TTL, proxied |-> FALSE]

\* Variant: the url names the record instead of carrying its id.
PutRequestByName(record_id, ip) ==
    [id |-> DNS_RECORD, type |-> "A", name |-> DNS_RECORD, content |-> ip,
     ttl |-> config.ttl, proxied |-> config.proxied]

\* The PUT of _update_dns_record: the record id of the url and the json body.
PutRequest(record_id, ip) ==
    [id |-> record_id, type |-> "A", name |-> DNS_RECORD, content |-> ip,
     ttl |-> config.ttl, proxied |-> config.proxied]

\* The Telegram branch of _send_notifications is taken.
TelegramConfigured ==
    config.notify_telegram /\ config.telegram_chat_id # "" /\ config.telegram_bot_token # ""

\* Variant: the webhook url is not looked at.
DiscordConfiguredNoUrl == config.notify_discord

\* The Discord branch of _send_notifications is taken.
DiscordConfigured == config.notify_discord /\ config.discord_webhook_url # ""

\* Line 257: the message of both channels, as the pieces of the f-string.
Message(new_ip, old_ip) ==
    <<DNS_RECORD, " DNS Record Updated To: ", new_ip, " (was ", old_ip, ")">>

\* Variant: a manual sync of a synced record leaves last_sync_time alone.
AlreadySyncedTimeStale(manual) == last_sync_time

\* Lines 158-163: last_sync_time after the "already synced" branch.
AlreadySyncedTime(manual) == IF manual THEN Some(now) ELSE last_sync_time

\* Variant: a synced status reports the address the record has after the write.
StatusPostUpdate(synced, ip, record_ip) ==
    [synced |-> synced, current_ip |-> ip,
     dns_record_ip |-> IF synced THEN ip ELSE record_ip, domain |-> DNS_RECORD]

\* The dict returned by _async_update_data.
Status(synced, ip, record_ip) ==
    [synced |-> synced, current_ip |-> ip, dns_record_ip |-> record_ip,
     domain |-> DNS_RECORD]

-----------------------------------------------------------------------------
(* The sensors *)

\* CloudflareDDNSSyncedSensor.native_value and extra_state_attributes,
\* CloudflareDDNSCurrentIPSensor.native_value and
\* CloudflareDDNSLastSyncSensor.native_value, read when the coordinator holds
\* the status d and the time lst.
SyncedSensor(d) == IF d # None THEN (IF d[1].synced THEN "Yes" ELSE "No") ELSE "Unknown"
SyncedSensorAttributes(d) ==
    IF d # None THEN Some(<<d[1].dns_record_ip, d[1].current_ip>>) ELSE None
CurrentIPSensor(d) == IF d # None THEN Some(d[1].current_ip) ELSE None
LastSyncSensor(lst) == lst
Sensors(d, lst) ==
    <<SyncedSensor(d), SyncedSensorAttributes(d), CurrentIPSensor(d), LastSyncSensor(lst)>>

-----------------------------------------------------------------------------
(* The validation of the config flow and of the options flow *)

\* The TTLs tried in a submission, on both sides of every limit.
TtlInputs == {0, AUTO_TTL, 2, MIN_TTL - 1, MIN_TTL, MIN_TTL + 1, MAX_TTL, MAX_TTL + 1}

\* user_input after the form's schema has filled in the defaults.
Submissions ==
    [what_ip : {IP_TYPE_EXTERNAL, IP_TYPE_INTERNAL}, proxied : BOOLEAN,
     ttl : TtlInputs, auto_update : BOOLEAN]

\* Variant: the exemption of AUTO_TTL is missing.
InvalidTtlNoAuto(ttl) == ttl < MIN_TTL \/ ttl > MAX_TTL

\* Lines 59-61 and 146-148.
InvalidTtl(ttl) == ttl # AUTO_TTL /\ (ttl < MIN_TTL \/ ttl > MAX_TTL)

\* Variant: the check looks for the other address source.
InternalCannotProxyExternal(u) == u.what_ip = IP_TYPE_EXTERNAL /\ u.proxied

\* Lines 64-68 and 151-155.
InternalCannotProxy(u) == u.what_ip = IP_TYPE_INTERNAL /\ u.proxied

\* The errors dict of a step, as a set of <<key, message>>.
Errors(u) ==
    (IF InvalidTtl(u.ttl) THEN {<<"ttl", "invalid_ttl">>} ELSE {})
    \cup (IF InternalCannotProxy(u)
          THEN {<<"proxied", "internal_cannot_proxy">>} ELSE {})

\* The two results a step returns.
ShowForm(errors) == [type |-> "form", errors |-> errors, data |-> None]
CreateEntry(u) == [type |-> "create_entry", errors |-> {}, data |-> Some(u)]

\* The keys of a submission that the coordinator copies into its config;
\* the auto_update key of the options is options_auto.
Settings(u) == [what_ip |-> u.what_ip, proxied |-> u.proxied, ttl |-> u.ttl]

\* async_setup_entry, line 50: the options override the data.
StoredConfig ==
    IF entry_options # None THEN entry_options[1] ELSE Settings(entry_data[1])

-----------------------------------------------------------------------------
(* Initial state *)

\* The notification set-ups explored: each channel off, on with its
\* credentials, or on with a credential missing.
Notifiers ==
    {[notify_telegram |-> t[1], telegram_chat_id |-> t[2], telegram_bot_token |-> t[3],
      notify_discord |-> d[1], discord_webhook_url |-> d[2]] :
        t \in {<<FALSE, "", "">>, <<TRUE, "42", "bot-token">>},
        d \in {<<FALSE, "">>, <<TRUE, "https://discord.example/hook">>}}
    \cup
    {[notify_telegram |-> TRUE, telegram_chat_id |-> "", telegram_bot_token |-> "bot-token",
      notify_discord |-> TRUE, discord_webhook_url |-> ""],
     [notify_telegram |-> TRUE, telegram_chat_id |-> "42", telegram_bot_token |-> "",
      notify_discord |-> TRUE, discord_webhook_url |-> "https://discord.example/hook"]}

\* The configurations explored: both address sources, both values of the
\* proxied flag (a proxied record with the automatic TTL, an unproxied one
\* with the default TTL) and every notification set-up above.
AllConfigs ==
    {[what_ip |-> w, proxied |-> p, ttl |-> IF p THEN AUTO_TTL ELSE DEFAULT_TTL,
      notify_telegram |-> n.notify_telegram,
      telegram_chat_id |-> n.telegram_chat_id,
      telegram_bot_token |-> n.telegram_bot_token,
      notify_discord |-> n.notify_discord,
      discord_webhook_url |-> n.discord_webhook_url] :
        w \in {IP_TYPE_EXTERNAL, IP_TYPE_INTERNAL}, p \in BOOLEAN, n \in Notifiers}

\* Those of them that the flows let be stored.
Configs == {c \in AllConfigs : Errors(c) = {}}

Records == [id : RecordIds, content : Addresses, proxied : BOOLEAN]

NoRecord == [id |-> "", content |-> "", proxied |-> FALSE]

\* The history of a cycle that starts in the current state.
NewCycle ==
    [start_data |-> data, start_lst |-> last_sync_time, failed_at |-> "",
     ip_calls |-> 0, reads |-> 0, writes |-> 0,
     telegram_calls |-> 0, discord_calls |-> 0,
     start_auto |-> Some(auto_update_enabled),
     decided_auto |-> None, written |-> None, accepted |-> FALSE,
     telegram_failed |-> FALSE, discord_failed |-> FALSE,
     telegram_text |-> None, discord_content |-> None]

\* No cycle is in flight: nothing to remember.
NoCycle ==
    [NewCycle EXCEPT !.start_data = None, !.start_lst = None, !.start_auto = None]

\* What is kept of a cycle once it is over: whether it decided with
\* auto-update on, issued one write and had it applied by the provider.
Summary(c) ==
    [corrected |-> c.decided_auto = Some(TRUE) /\ c.writes = 1 /\ c.accepted]

Init ==
    /\ config \in Configs
    /\ auto_update_enabled \in BOOLEAN
    /\ options_auto = Some(auto_update_enabled)
    /\ manual_sync_requested = FALSE
    /\ last_sync_time = None
    /\ data = None
    /\ pc = "idle"
    /\ is_manual_sync = FALSE
    /\ current_ip = ""
    /\ dns_record_info = NoRecord
    /\ put_request = None
    /\ returned = None
    /\ now = 0
    /\ net_ip \in Addresses
    /\ remote \in Records
    /\ cyc = NoCycle
    /\ prev = Summary(NoCycle)
    /\ entry_data = Some([what_ip |-> config.what_ip, proxied |-> config.proxied,
                          ttl |-> config.ttl, auto_update |-> DEFAULT_AUTO_UPDATE])
    /\ entry_options = None
    /\ flow_result = None

-----------------------------------------------------------------------------
(* The environment's answers *)

\* The bodies the address-echo endpoint can send: the host's address with or
\* without surrounding whitespace, or nothing but whitespace.
EchoBodies == {<< >>, <<"\n">>, <<net_ip>>, <<net_ip, "\n">>, <<" ", net_ip, "\n">>}

IpResponses ==
    {[err |-> TRUE, status |-> 0, body |-> << >>]}
    \cup [err : {FALSE}, status : {200, 500}, body : EchoBodies]

\* The record listing: a transport error, an error status, or an envelope
\* with the success flag and a result list holding the record or nothing.
RecordResponses ==
    {[err |-> TRUE, status |-> 0, success |-> FALSE, result |-> << >>]}
    \cup [err : {FALSE}, status : {200, 500}, success : BOOLEAN,
          result : {<< >>, <<remote>>}]

\* The provider has applied the write it answers.
Applied(resp) == ~resp.err /\ resp.status = 200 /\ resp.success

\* The provider confirms a write only for the record it holds.
WriteResponses ==
    {r \in {[err |-> TRUE, status |-> 0, success |-> FALSE]}
           \cup [err : {FALSE}, status : {200, 500}, success : BOOLEAN] :
        Applied(r) => put_request # None /\ put_request[1].id = remote.id}

NotifyResponses ==
    {[err |-> TRUE, status |-> 0]} \cup [err : {FALSE}, status : {200, 204, 500}]

-----------------------------------------------------------------------------
(* The reconcile cycle *)

\* The scheduler starts a cycle only when none is in flight.
NoCycleInFlight == pc = "idle"

\* Nothing else runs between the end of _async_update_data and the
\* coordinator's handling of its result: there is no suspension point.
BetweenCallbacks == pc \notin {"returned", "raised"}

\* Variant: the time of the attempt is recorded even when it fails.
FailRefreshing(step, c) ==
    /\ pc' = "raised"
    /\ cyc' = [c EXCEPT !.failed_at = step, !.start_auto = None]
    /\ last_sync_time' = Some(now)
    /\ UNCHANGED returned

\* raise UpdateFailed, re-raised by the handlers of lines 181-184.
Fail(step, c) ==
    /\ pc' = "raised"
    /\ cyc' = [c EXCEPT !.failed_at = step, !.start_auto = None]
    /\ UNCHANGED <<returned, last_sync_time>>

\* Variant: every returning cycle records its time.
CompleteAlwaysRefreshing(synced, lst, ip, info, c) ==
    /\ last_sync_time' = Some(now)
    /\ returned' = Some(Status(synced, ip, info.content))
    /\ pc' = "returned"
    /\ cyc' = c

\* Lines 170-179: the refresh on every check and the returned dict.  lst is
\* last_sync_time as the branches above left it.
Complete(synced, lst, ip, info, c) ==
    /\ last_sync_time' =
         IF RefreshOnCheck(is_manual_sync, auto_update_enabled) THEN Some(now) ELSE lst
    /\ returned' = Some(Status(synced, ip, info.content))
    /\ pc' = "returned"
    /\ cyc' = c

\* Variant: line 155 is missing.
AfterUpdateNoRefresh(c) == Complete(TRUE, last_sync_time, current_ip, dns_record_info, c)

\* Lines 153-155, after _send_notifications has returned.
AfterUpdate(c) == Complete(TRUE, Some(now), current_ip, dns_record_info, c)

\* Variant: the flag is reset only once the address is being resolved.
StartCycleResetsAfterResolution ==
    /\ NoCycleInFlight
    /\ is_manual_sync' = manual_sync_requested
    /\ IF config.what_ip = IP_TYPE_EXTERNAL
       THEN /\ pc' = "get_ip"
            /\ cyc' = [NewCycle EXCEPT !.ip_calls = 1]
            /\ manual_sync_requested' = FALSE
            /\ UNCHANGED <<returned, last_sync_time>>
       ELSE /\ Fail("ip", NewCycle)
            /\ UNCHANGED manual_sync_requested
    /\ UNCHANGED flow_vars
    /\ UNCHANGED <<config, auto_update_enabled, options_auto, data, current_ip,
                   dns_record_info, put_request, now, net_ip, remote, prev>>

\* Variant: line 122 is missing, the flag outlives the cycle it started.
StartCycleKeepsFlag ==
    /\ NoCycleInFlight
    /\ is_manual_sync' = manual_sync_requested
    /\ IF config.what_ip = IP_TYPE_EXTERNAL
       THEN /\ pc' = "get_ip"
            /\ cyc' = [NewCycle EXCEPT !.ip_calls = 1]
            /\ UNCHANGED <<returned, last_sync_time>>
       ELSE Fail("ip", NewCycle)
    /\ UNCHANGED flow_vars
    /\ UNCHANGED <<config, auto_update_enabled, options_auto, manual_sync_requested,
                   data, current_ip, dns_record_info, put_request, now, net_ip,
                   remote, prev>>

\* Lines 119-127: snapshot and reset of the manual flag, then _get_current_ip
\* up to its GET (external) or to its return of None (internal).
StartCycle ==
    /\ NoCycleInFlight
    /\ is_manual_sync' = manual_sync_requested
    /\ manual_sync_requested' = FALSE
    /\ IF config.what_ip = IP_TYPE_EXTERNAL
       THEN /\ pc' = "get_ip"
            /\ cyc' = [NewCycle EXCEPT !.ip_calls = 1]
            /\ UNCHANGED <<returned, last_sync_time>>
       ELSE Fail("ip", NewCycle)
    /\ UNCHANGED flow_vars
    /\ UNCHANGED <<config, auto_update_enabled, options_auto, data, current_ip,
                   dns_record_info, put_request, now, net_ip, remote, prev>>

\* Lines 125-130: the address-echo call returns; on an address the record
\* listing is requested.
IpResponse(resp) ==
    /\ pc = "get_ip"
    /\ LET ip == GetCurrentIp(resp) IN
       IF ResolutionFailed(ip)
       THEN /\ Fail("ip", cyc)
            /\ UNCHANGED current_ip
       ELSE /\ current_ip' = ip[1]
            /\ pc' = "get_record"
            /\ cyc' = [cyc EXCEPT !.reads = @ + 1]
            /\ UNCHANGED <<returned, last_sync_time>>
    /\ UNCHANGED flow_vars
    /\ UNCHANGED <<config, auto_update_enabled, options_auto, manual_sync_requested,
                   data, is_manual_sync, dns_record_info, put_request, now, net_ip,
                   remote, prev>>

\* Lines 130-179 up to the PUT: the record listing returns, synced is
\* computed and the cycle decides whether to write.
RecordResponse(resp) ==
    /\ pc = "get_record"
    /\ LET info == GetDnsRecordInfo(resp) IN
       IF info = None
       THEN /\ Fail("record", cyc)
            /\ UNCHANGED <<dns_record_info, put_request>>
       ELSE LET rec == info[1]
                synced == Synced(rec, current_ip, config.proxied)
                c == [cyc EXCEPT !.decided_auto = Some(auto_update_enabled),
                                 !.start_auto = None]
            IN  /\ dns_record_info' = rec
                /\ IF ShouldUpdate(is_manual_sync, synced, auto_update_enabled)
                   THEN IF ~synced
                        THEN /\ put_request' = Some(PutRequest(rec.id, current_ip))
                             /\ pc' = "put_record"
                             /\ cyc' = [c EXCEPT !.writes = @ + 1,
                                                 !.written = put_request']
                             /\ UNCHANGED <<returned, last_sync_time>>
                        ELSE /\ Complete(synced, AlreadySyncedTime(is_manual_sync),
                                         current_ip, rec, c)
                             /\ UNCHANGED put_request
                   ELSE /\ Complete(synced, last_sync_time, current_ip, rec, c)
                        /\ UNCHANGED put_request
    /\ UNCHANGED flow_vars
    /\ UNCHANGED <<config, auto_update_enabled, options_auto, manual_sync_requested,
                   data, is_manual_sync, current_ip, now, net_ip, remote, prev>>

\* The Telegram GET (params chat_id and text) and the Discord POST (json
\* content) are issued, each with the message of line 257.
TelegramCall(c) ==
    [c EXCEPT !.telegram_calls = @ + 1,
              !.telegram_text = Some(Message(current_ip, dns_record_info.content))]
DiscordCall(c) ==
    [c EXCEPT !.discord_calls = @ + 1,
              !.discord_content = Some(Message(current_ip, dns_record_info.content))]

\* Variant: line 155 comes before the notifications are sent.
SendNotificationsRefreshFirst(c) ==
    IF TelegramConfigured
    THEN /\ pc' = "telegram"
         /\ cyc' = TelegramCall(c)
         /\ last_sync_time' = Some(now)
         /\ UNCHANGED returned
    ELSE IF DiscordConfigured
    THEN /\ pc' = "discord"
         /\ cyc' = DiscordCall(c)
         /\ last_sync_time' = Some(now)
         /\ UNCHANGED returned
    ELSE AfterUpdate(c)

\* _send_notifications up to its first call, or through to its end.
SendNotifications(c) ==
    IF TelegramConfigured
    THEN /\ pc' = "telegram"
         /\ cyc' = TelegramCall(c)
         /\ UNCHANGED <<returned, last_sync_time>>
    ELSE IF DiscordConfigured
    THEN /\ pc' = "discord"
         /\ cyc' = DiscordCall(c)
         /\ UNCHANGED <<returned, last_sync_time>>
    ELSE AfterUpdate(c)

\* Lines 150-157: the PUT returns.
WriteResponse(resp) ==
    /\ pc = "put_record"
    /\ put_request' = None
    /\ remote' = IF Applied(resp)
                 THEN [remote EXCEPT !.content = put_request[1].content,
                                     !.proxied = put_request[1].proxied]
                 ELSE remote
    /\ LET c == [cyc EXCEPT !.accepted = Applied(resp)] IN
       IF UpdateDnsRecord(resp)
       THEN SendNotifications(c)
       ELSE Fail("write", c)
    /\ UNCHANGED flow_vars
    /\ UNCHANGED <<config, auto_update_enabled, options_auto, manual_sync_requested,
                   data, is_manual_sync, current_ip, dns_record_info, now, net_ip,
                   prev>>

\* Variant: an exception of the Telegram call is not caught.
TelegramResponseUncaught(resp) ==
    /\ pc = "telegram"
    /\ LET c == [cyc EXCEPT !.telegram_failed = resp.err \/ resp.status # 200] IN
       IF resp.err
       THEN Fail("telegram", c)
       ELSE IF DiscordConfigured
       THEN /\ pc' = "discord"
            /\ cyc' = DiscordCall(c)
            /\ UNCHANGED <<returned, last_sync_time>>
       ELSE AfterUpdate(c)
    /\ UNCHANGED flow_vars
    /\ UNCHANGED <<config, auto_update_enabled, options_auto, manual_sync_requested,
                   data, is_manual_sync, current_ip, dns_record_info, put_request,
                   now, net_ip, remote, prev>>

\* Lines 267-274: the Telegram call returns or raises; Discord comes next.
TelegramResponse(resp) ==
    /\ pc = "telegram"
    /\ LET c == [cyc EXCEPT !.telegram_failed = resp.err \/ resp.status # 200] IN
       IF DiscordConfigured
       THEN /\ pc' = "discord"
            /\ cyc' = DiscordCall(c)
            /\ UNCHANGED <<returned, last_sync_time>>
       ELSE AfterUpdate(c)
    /\ UNCHANGED flow_vars
    /\ UNCHANGED <<config, auto_update_enabled, options_auto, manual_sync_requested,
                   data, is_manual_sync, current_ip, dns_record_info, put_request,
                   now, net_ip, remote, prev>>

\* Lines 280-286: the Discord call returns or raises.
DiscordResponse(resp) ==
    /\ pc = "discord"
    /\ AfterUpdate([cyc EXCEPT !.discord_failed = resp.err \/ resp.status \notin {200, 204}])
    /\ UNCHANGED flow_vars
    /\ UNCHANGED <<config, auto_update_enabled, options_auto, manual_sync_requested,
                   data, is_manual_sync, current_ip, dns_record_info, put_request,
                   now, net_ip, remote, prev>>

\* The coordinator base class takes the outcome: a returned dict becomes
\* data, an UpdateFailed leaves data as it was.  The frame of the cycle is
\* gone.
Finish ==
    /\ pc \in {"returned", "raised"}
    /\ data' = IF pc = "returned" THEN returned ELSE data
    /\ pc' = "idle"
    /\ returned' = None
    /\ is_manual_sync' = FALSE
    /\ current_ip' = ""
    /\ dns_record_info' = NoRecord
    /\ cyc' = NoCycle
    /\ prev' = Summary(cyc)
    /\ UNCHANGED flow_vars
    /\ UNCHANGED <<config, auto_update_enabled, options_auto, manual_sync_requested,
                   last_sync_time, put_request, now, net_ip, remote>>

-----------------------------------------------------------------------------
(* The controls *)

\* CloudflareDDNSSyncButton.async_press: the flag is set and a refresh is
\* requested, which the scheduler turns into a StartCycle.
Press ==
    /\ BetweenCallbacks
    /\ manual_sync_requested' = TRUE
    /\ UNCHANGED flow_vars
    /\ UNCHANGED <<config, auto_update_enabled, options_auto, last_sync_time, data,
                   pc, is_manual_sync, current_ip, dns_record_info, put_request,
                   returned, now, net_ip, remote, cyc, prev>>

\* Variant: the entry's options are not updated.
SetAutoUpdateNotPersisted(value) ==
    /\ BetweenCallbacks
    /\ auto_update_enabled' = value
    /\ UNCHANGED flow_vars
    /\ UNCHANGED <<config, options_auto, manual_sync_requested, last_sync_time, data,
                   pc, is_manual_sync, current_ip, dns_record_info, put_request,
                   returned, now, net_ip, remote, cyc, prev>>

\* CloudflareDDNSAutoUpdateSwitch.async_turn_on / async_turn_off.
SetAutoUpdate(value) ==
    /\ BetweenCallbacks
    /\ auto_update_enabled' = value
    /\ options_auto' = Some(value)
    /\ UNCHANGED flow_vars
    /\ UNCHANGED <<config, manual_sync_requested, last_sync_time, data, pc,
                   is_manual_sync, current_ip, dns_record_info, put_request,
                   returned, now, net_ip, remote, cyc, prev>>

TurnOn == SetAutoUpdate(TRUE)

TurnOff == SetAutoUpdate(FALSE)

-----------------------------------------------------------------------------
(* The config flow and the options flow *)

\* What a step is called with: nothing (the form is shown) or a submission.
FlowInputs == {None} \cup {Some(u) : u \in Submissions}

\* The coordinator's variables, which no flow touches.
core_vars ==
    <<config, auto_update_enabled, manual_sync_requested, last_sync_time, data, pc,
      is_manual_sync, current_ip, dns_record_info, put_request, returned, now,
      net_ip, remote, cyc, prev>>

\* CloudflareDDNSConfigFlow.async_step_user: the entry is created from a
\* submission without errors, else the form is shown again.
StepUser(user_input) ==
    /\ entry_data = None
    /\ IF user_input # None /\ Errors(user_input[1]) = {}
       THEN /\ entry_data' = user_input
            /\ flow_result' = CreateEntry(user_input[1])
       ELSE /\ flow_result' =
                 ShowForm(IF user_input = None THEN {} ELSE Errors(user_input[1]))
            /\ UNCHANGED entry_data
    /\ UNCHANGED <<entry_options, options_auto>>
    /\ UNCHANGED core_vars

\* CloudflareDDNSOptionsFlow.async_step_init: the options are replaced by a
\* submission without errors, else the form is shown again.
StepInit(user_input) ==
    /\ entry_data # None
    /\ IF user_input # None /\ Errors(user_input[1]) = {}
       THEN /\ entry_options' = Some(Settings(user_input[1]))
            /\ options_auto' = Some(user_input[1].auto_update)
            /\ flow_result' = CreateEntry(user_input[1])
       ELSE /\ flow_result' =
                 ShowForm(IF user_input = None THEN {} ELSE Errors(user_input[1]))
            /\ UNCHANGED <<entry_options, options_auto>>
    /\ UNCHANGED entry_data
    /\ UNCHANGED core_vars

-----------------------------------------------------------------------------
(* The environment *)

Tick ==
    /\ BetweenCallbacks
    /\ now < MaxTime
    /\ now' = now + 1
    /\ UNCHANGED flow_vars
    /\ UNCHANGED <<config, auto_update_enabled, options_auto, manual_sync_requested,
                   last_sync_time, data, pc, is_manual_sync, current_ip,
                   dns_record_info, put_request, returned, net_ip, remote, cyc, prev>>

\* The host gets another public address.
IpChange(ip) ==
    /\ BetweenCallbacks
    /\ ip # net_ip
    /\ net_ip' = ip
    /\ UNCHANGED flow_vars
    /\ UNCHANGED <<config, auto_update_enabled, options_auto, manual_sync_requested,
                   last_sync_time, data, pc, is_manual_sync, current_ip,
                   dns_record_info, put_request, returned, now, remote, cyc, prev>>

\* Someone else edits or recreates the record at the provider.
RecordChange(rec) ==
    /\ BetweenCallbacks
    /\ rec # remote
    /\ remote' = rec
    /\ UNCHANGED flow_vars
    /\ UNCHANGED <<config, auto_update_enabled, options_auto, manual_sync_requested,
                   last_sync_time, data, pc, is_manual_sync, current_ip,
                   dns_record_info, put_request, returned, now, net_ip, cyc, prev>>

-----------------------------------------------------------------------------

Next ==
    \/ StartCycle
    \/ \E resp \in IpResponses : IpResponse(resp)
    \/ \E resp \in RecordResponses : RecordResponse(resp)
    \/ \E resp \in WriteResponses : WriteResponse(resp)
    \/ \E resp \in NotifyResponses : TelegramResponse(resp)
    \/ \E resp \in NotifyResponses : DiscordResponse(resp)
    \/ Finish
    \/ Press
    \/ TurnOn
    \/ TurnOff
    \/ Tick
    \/ \E ip \in Addresses : IpChange(ip)
    \/ \E rec \in Records : RecordChange(rec)

Spec == Init /\ [][Next]_vars

\* The same program in a quiet environment: the host keeps its address and
\* nobody else touches the record.
NextStable ==
    \/ StartCycle
    \/ \E resp \in IpResponses : IpResponse(resp)
    \/ \E resp \in RecordResponses : RecordResponse(resp)
    \/ \E resp \in WriteResponses : WriteResponse(resp)
    \/ \E resp \in NotifyResponses : TelegramResponse(resp)
    \/ \E resp \in NotifyResponses : DiscordResponse(resp)
    \/ Finish
    \/ Press
    \/ TurnOn
    \/ TurnOff
    \/ Tick

SpecStable == Init /\ [][NextStable]_vars

\* The flows on their own, from before the entry exists: the coordinator is
\* built from the entry only when the integration is next set up.
InitFlow ==
    /\ entry_data = None
    /\ entry_options = None
    /\ flow_result = None
    /\ options_auto = None
    /\ config = CHOOSE c \in Configs : c.what_ip = IP_TYPE_EXTERNAL /\ ~c.proxied
    /\ auto_update_enabled = TRUE
    /\ manual_sync_requested = FALSE
    /\ last_sync_time = None
    /\ data = None
    /\ pc = "idle"
    /\ is_manual_sync = FALSE
    /\ current_ip = ""
    /\ dns_record_info = NoRecord
    /\ put_request = None
    /\ returned = None
    /\ now = 0
    /\ net_ip = CHOOSE ip \in Addresses : TRUE
    /\ remote = CHOOSE rec \in Records : TRUE
    /\ cyc = NoCycle
    /\ prev = Summary(NoCycle)

NextFlow ==
    \/ \E user_input \in FlowInputs : StepUser(user_input)
    \/ \E user_input \in FlowInputs : StepInit(user_input)

SpecFlow == InitFlow /\ [][NextFlow]_vars

\* The address-echo call, the record listing and the write, answered well.
IpSucceeds ==
    \E resp \in IpResponses : ~ResolutionFailed(GetCurrentIp(resp)) /\ IpResponse(resp)
RecordSucceeds ==
    \E resp \in RecordResponses : GetDnsRecordInfo(resp) # None /\ RecordResponse(resp)
WriteSucceeds == \E resp \in WriteResponses : Applied(resp) /\ WriteResponse(resp)

\* The program with auto-update left on and the external address source, in
\* a quiet environment.
InitLive == Init /\ auto_update_enabled /\ config.what_ip = IP_TYPE_EXTERNAL

NextLive ==
    \/ StartCycle
    \/ \E resp \in IpResponses : IpResponse(resp)
    \/ \E resp \in RecordResponses : RecordResponse(resp)
    \/ \E resp \in WriteResponses : WriteResponse(resp)
    \/ \E resp \in NotifyResponses : TelegramResponse(resp)
    \/ \E resp \in NotifyResponses : DiscordResponse(resp)
    \/ Finish
    \/ Press
    \/ Tick

\* The update interval keeps starting cycles, the coordinator takes every
\* result, every notification call is answered, and a provider call that is
\* made again and again is answered well again and again.
Fairness ==
    /\ WF_vars(StartCycle)
    /\ WF_vars(Finish)
    /\ WF_vars(\E resp \in NotifyResponses : TelegramResponse(resp))
    /\ WF_vars(\E resp \in NotifyResponses : DiscordResponse(resp))
    /\ SF_vars(IpSucceeds)
    /\ SF_vars(RecordSucceeds)
    /\ SF_vars(WriteSucceeds)

SpecLive == InitLive /\ [][NextLive]_vars /\ Fairness

-----------------------------------------------------------------------------
(* Properties of the reconcile cycle *)

\* The cycle has read the record and taken the decision of line 141.
Decided == cyc.decided_auto # None

\* The record read by the cycle matches the resolved address and the
\* configured proxied flag.
RecordMatches ==
    dns_record_info.content = current_ip /\ dns_record_info.proxied = config.proxied

NoNotifications == cyc.telegram_calls = 0 /\ cyc.discord_calls = 0

\* A response of the address-echo endpoint that yields no address.
NoAddressIn(resp) ==
    \/ resp.err
    \/ resp.status # 200
    \/ \A i \in 1..Len(resp.body) : resp.body[i] \in Whitespace

\* C1: a cycle whose address resolution fails (transport error or timeout,
\* status other than 200, empty body, or the internal address source) has
\* issued no record read and no write, and ends as a failed cycle.
C1_ResolutionFailureStopsCycle ==
    [][/\ \A resp \in IpResponses :
            NoAddressIn(resp) /\ IpResponse(resp)
                => pc' = "raised" /\ cyc'.reads = 0 /\ cyc'.writes = 0
       /\ config.what_ip = IP_TYPE_INTERNAL /\ StartCycle
            => pc' = "raised" /\ cyc'.ip_calls = 0 /\ cyc'.reads = 0 /\ cyc'.writes = 0
      ]_vars

C1_Witness ==
    /\ pc = "raised" /\ cyc.failed_at = "ip"
    /\ cyc.ip_calls = 1 /\ cyc.reads = 0 /\ cyc.writes = 0

\* C2: once a cycle has read a record that does not match, with auto-update
\* on at the decision, it has issued exactly one write, carrying the address
\* resolved in this cycle, the configured TTL and the configured proxied
\* flag; when the provider has accepted that write and the cycle is over, it
\* has returned a status with synced = true and last_sync_time is the
\* current time.
C2_MismatchIsCorrected ==
    Decided /\ ~RecordMatches /\ cyc.decided_auto = Some(TRUE)
        => /\ cyc.writes = 1
           /\ cyc.written # None
           /\ cyc.written[1].id = dns_record_info.id
           /\ cyc.written[1].content = current_ip
           /\ cyc.written[1].ttl = config.ttl
           /\ cyc.written[1].proxied = config.proxied
           /\ cyc.accepted /\ pc \notin {"telegram", "discord"}
                => /\ pc = "returned"
                   /\ returned[1].synced
                   /\ last_sync_time = Some(now)

C2_Witness ==
    /\ pc = "returned" /\ cyc.decided_auto = Some(TRUE) /\ ~RecordMatches
    /\ cyc.accepted /\ cyc.writes = 1
    /\ config.proxied /\ ~auto_update_enabled /\ cyc.start_lst # Some(now)

\* C3: a cycle that was not manual and has read a record matching the
\* resolved address and the configured proxied flag has issued no write and
\* no notification, and has returned a status with synced = true.
C3_SyncedRecordIsLeftAlone ==
    Decided /\ RecordMatches /\ ~is_manual_sync
        => /\ pc = "returned"
           /\ cyc.writes = 0
           /\ NoNotifications
           /\ returned[1].synced

C3_Witness ==
    /\ pc = "returned" /\ Decided /\ RecordMatches /\ ~is_manual_sync
    /\ cyc.decided_auto = Some(TRUE) /\ ~config.proxied

\* C4: a manual cycle that has read a matching record has issued no write
\* and no notification, has succeeded, and has set last_sync_time to the
\* current time, whatever the auto-update setting.
C4_ManualSyncOfSyncedRecord ==
    Decided /\ RecordMatches /\ is_manual_sync
        => /\ pc = "returned"
           /\ cyc.writes = 0
           /\ NoNotifications
           /\ returned[1].synced
           /\ last_sync_time = Some(now)

C4_Witness ==
    /\ pc = "returned" /\ Decided /\ RecordMatches /\ is_manual_sync
    /\ cyc.decided_auto = Some(FALSE) /\ cyc.start_lst # Some(now)

\* C5: a cycle that was not manual and has read a mismatching record with
\* auto-update off at the decision has issued no write, has succeeded, and
\* has returned a status with synced = false.
C5_MismatchReportedWhenAutoUpdateOff ==
    Decided /\ ~RecordMatches /\ ~is_manual_sync /\ cyc.decided_auto = Some(FALSE)
        => /\ pc = "returned"
           /\ cyc.writes = 0
           /\ NoNotifications
           /\ ~returned[1].synced

C5_Witness ==
    /\ pc = "returned" /\ Decided /\ ~RecordMatches /\ ~is_manual_sync
    /\ cyc.decided_auto = Some(FALSE) /\ cyc.writes = 0

\* C6: in a quiet environment (the host keeps its address, nobody else
\* touches the record), the cycle that follows one which corrected a
\* mismatch with auto-update on, and itself decides with auto-update on,
\* reads a matching record, issues no write and no notification and returns
\* synced = true: the two cycles issue exactly one write in total.
C6_ReconcileIsIdempotent ==
    prev.corrected /\ cyc.decided_auto = Some(TRUE)
        => /\ pc = "returned"
           /\ RecordMatches
           /\ cyc.writes = 0
           /\ NoNotifications
           /\ returned[1].synced

C6_Witness ==
    /\ prev.corrected /\ cyc.decided_auto = Some(TRUE)
    /\ pc = "returned" /\ config.proxied /\ cyc.writes = 0

\* C7: a cycle that has failed, at whatever step, has left data and
\* last_sync_time as they were when it started, and they stay so when the
\* coordinator takes the failure.
C7_FailedCycleKeepsStatus ==
    /\ [](pc = "raised"
            => data = cyc.start_data /\ last_sync_time = cyc.start_lst)
    /\ [][pc = "raised" => data' = data /\ last_sync_time' = last_sync_time]_vars

C7_Witness ==
    /\ pc = "raised" /\ cyc.failed_at = "write"
    /\ data # None /\ last_sync_time # None /\ last_sync_time # Some(now)

\* C8: a cycle whose write has been answered without the provider confirming
\* it (transport error, status other than 200, or success flag false) has
\* failed: it has returned no status, has not touched last_sync_time and has
\* sent no notification.
C8_UnconfirmedWriteFailsCycle ==
    cyc.writes = 1 /\ pc # "put_record" /\ ~cyc.accepted
        => /\ pc = "raised"
           /\ returned = None
           /\ last_sync_time = cyc.start_lst
           /\ NoNotifications

C8_Witness ==
    /\ pc = "raised" /\ cyc.failed_at = "write" /\ ~cyc.accepted
    /\ TelegramConfigured /\ DiscordConfigured
    /\ auto_update_enabled /\ cyc.start_lst # Some(now)

\* C9: a failed Telegram call is followed by the Discord call when Discord
\* is configured; a cycle whose write was accepted never fails, and when
\* notifications have failed it still returns synced = true with the
\* addresses of this cycle and sets last_sync_time to the current time.
C9_NotificationsAreBestEffort ==
    /\ cyc.telegram_failed /\ DiscordConfigured => cyc.discord_calls = 1
    /\ cyc.accepted => pc # "raised"
    /\ pc = "returned" /\ (cyc.telegram_failed \/ cyc.discord_failed)
        => /\ returned = Some(Status(TRUE, current_ip, dns_record_info.content))
           /\ last_sync_time = Some(now)

C9_Witness ==
    /\ pc = "returned" /\ cyc.telegram_failed /\ cyc.discord_failed
    /\ cyc.telegram_calls = 1 /\ cyc.discord_calls = 1

-----------------------------------------------------------------------------
(* Properties of what is observed and of the controls *)

Submitted(u) == StepUser(Some(u)) \/ StepInit(Some(u))

\* The step has stored nothing.
NothingStored == UNCHANGED <<entry_data, entry_options, options_auto>>

\* C12: in the config flow and in the options flow a submission whose TTL
\* is 1 or lies in 120..7200 gets no TTL error, and is stored with that
\* TTL unless it is refused for another reason; a submission with any other
\* TTL is answered by the form with invalid_ttl and stores nothing.
C12_TtlValidation ==
    [][\A u \in Submissions :
         Submitted(u) =>
            IF u.ttl = 1 \/ u.ttl \in 120..7200
            THEN /\ <<"ttl", "invalid_ttl">> \notin flow_result'.errors
                 /\ ~(u.what_ip = IP_TYPE_INTERNAL /\ u.proxied)
                      => /\ flow_result'.type = "create_entry"
                         /\ StoredConfig' = Settings(u)
            ELSE /\ flow_result'.type = "form"
                 /\ <<"ttl", "invalid_ttl">> \in flow_result'.errors
                 /\ NothingStored]_vars

C12_Witness ==
    /\ flow_result # None /\ flow_result.type = "form"
    /\ <<"ttl", "invalid_ttl">> \in flow_result.errors
    /\ entry_data # None /\ entry_data[1].ttl = AUTO_TTL
    /\ entry_options # None /\ entry_options[1].ttl = MAX_TTL

\* C13: whatever has been submitted to the two flows, the stored
\* configuration never has the internal address source together with
\* proxied; a submission with both is answered by the form with
\* internal_cannot_proxy and stores nothing.
C13_InternalIsNeverProxied ==
    /\ [](entry_data # None
            => /\ ~(entry_data[1].what_ip = IP_TYPE_INTERNAL /\ entry_data[1].proxied)
               /\ ~(StoredConfig.what_ip = IP_TYPE_INTERNAL /\ StoredConfig.proxied))
    /\ [][\A u \in Submissions :
            Submitted(u) /\ u.what_ip = IP_TYPE_INTERNAL /\ u.proxied
                => /\ flow_result'.type = "form"
                   /\ <<"proxied", "internal_cannot_proxy">> \in flow_result'.errors
                   /\ NothingStored]_vars

C13_Witness ==
    /\ flow_result # None /\ flow_result.type = "form"
    /\ flow_result.errors = {<<"proxied", "internal_cannot_proxy">>}
    /\ entry_options # None /\ entry_options[1].what_ip = IP_TYPE_INTERNAL
    /\ entry_data[1].proxied

\* The toggle's frame: the manual flag, the published status, the time of
\* the last sync and everything of the cycle in flight, its calls included.
ToggleFrame ==
    UNCHANGED <<manual_sync_requested, data, last_sync_time, pc, put_request,
                returned, cyc, remote>>

\* C14: turn_on leaves auto_update_enabled and the persisted option TRUE,
\* turn_off leaves both FALSE, each changes neither the manual flag nor the
\* published status nor last_sync_time and makes no provider call; and
\* nothing but the two changes the setting or the option.
C14_ToggleChangesOnlyTheSetting ==
    [][/\ TurnOn => auto_update_enabled' /\ options_auto' = Some(TRUE) /\ ToggleFrame
       /\ TurnOff => ~auto_update_enabled' /\ options_auto' = Some(FALSE) /\ ToggleFrame
       /\ auto_update_enabled' # auto_update_enabled \/ options_auto' # options_auto
            => TurnOn \/ TurnOff]_vars

C14_Witness ==
    /\ pc = "put_record" /\ cyc.decided_auto = Some(TRUE)
    /\ ~auto_update_enabled /\ options_auto = Some(FALSE)
    /\ manual_sync_requested /\ data # None /\ last_sync_time # None

\* C15: a cycle that has read the record has issued a write, one and with
\* the address it resolved, exactly when the record did not match and the
\* cycle was manual or auto-update was on; so a manual cycle writes to a
\* mismatching record with auto-update off.
C15_ManualOverridesAutoUpdateOff ==
    Decided =>
        /\ cyc.writes = 1
            <=> ~RecordMatches /\ (is_manual_sync \/ cyc.decided_auto = Some(TRUE))
        /\ cyc.writes \in {0, 1}
        /\ cyc.writes = 1 => cyc.written[1].content = current_ip

C15_Witness ==
    /\ Decided /\ is_manual_sync /\ cyc.decided_auto = Some(FALSE)
    /\ ~auto_update_enabled /\ ~RecordMatches /\ cyc.writes = 1
    /\ cyc.written[1].content = current_ip

\* C16: a cycle that was not manual, ran with auto-update on and has
\* returned a status has set last_sync_time to the current time, with or
\* without a write.
C16_AutoCycleRefreshesLastSync ==
    pc = "returned" /\ ~is_manual_sync /\ cyc.decided_auto = Some(TRUE)
        => last_sync_time = Some(now)

C16_Witness ==
    /\ pc = "returned" /\ ~is_manual_sync /\ cyc.decided_auto = Some(TRUE)
    /\ cyc.writes = 0 /\ RecordMatches
    /\ cyc.start_lst # None /\ cyc.start_lst # Some(now)

\* A cycle starts in this step.
CycleStarts == NoCycleInFlight /\ ~NoCycleInFlight'

\* C17: the manual flag is set by a button press only and cleared by the
\* start of a cycle only; the cycle that starts is manual exactly when the
\* flag was set, and stays what it started as; a flag set while a cycle is
\* in flight is still set when that cycle is over.
C17_ManualFlagIsOneShot ==
    [][/\ ~manual_sync_requested /\ manual_sync_requested' => Press
       /\ manual_sync_requested /\ ~manual_sync_requested' => CycleStarts
       /\ CycleStarts
            => is_manual_sync' = manual_sync_requested /\ ~manual_sync_requested'
       /\ ~NoCycleInFlight /\ ~NoCycleInFlight'
            => is_manual_sync' = is_manual_sync]_vars

C17_Witness ==
    /\ pc = "get_record" /\ ~is_manual_sync /\ manual_sync_requested
    /\ data # None

\* C18: the auto-update value a cycle decides with is the value that held
\* when the cycle started.
C18_SettingFixedAtCycleStart ==
    [][pc = "get_record" /\ cyc'.decided_auto # None
        => cyc'.decided_auto = cyc.start_auto]_vars

\* C19: with auto-update on, the address and the record left alone by
\* others, cycles that keep starting and calls that are answered well again
\* and again, the record comes to hold the host's address and the
\* configured proxied flag and a status with synced = true is published, for
\* good; and after every failed cycle another cycle starts.
C19_Convergence ==
    /\ <>[](/\ remote.content = net_ip /\ remote.proxied = config.proxied
            /\ data # None /\ data[1].synced)
    /\ (pc = "raised") ~> (pc = "get_ip")

C19_Witness ==
    /\ pc = "idle" /\ prev.corrected
    /\ remote.content = net_ip /\ remote.proxied = config.proxied
    /\ data # None /\ data[1].synced /\ data[1].current_ip = net_ip

\* C20 as stated: the record address of a returned status is the one the
\* cycle read, and after a write that corrected a mismatch the status has
\* synced = true with a record address other than the current address.
C20_RecordAddressDiffersAfterCorrection ==
    pc = "returned"
        => /\ returned[1].dns_record_ip = dns_record_info.content
           /\ cyc.writes = 1 /\ cyc.accepted
                => /\ returned[1].synced
                   /\ returned[1].dns_record_ip # returned[1].current_ip

\* C20, amended: the record address of a returned status is the one the
\* cycle read, whatever the record holds by now; after a write that
\* corrected a mismatch of the address the status has synced = true with a
\* record address other than the current address, and after one that
\* corrected the proxied flag alone the two addresses are equal.
C20_RecordAddressIsPreUpdate ==
    pc = "returned"
        => /\ returned[1].dns_record_ip = dns_record_info.content
           /\ returned[1].current_ip = current_ip
           /\ cyc.writes = 1 /\ cyc.accepted
                => /\ returned[1].synced
                   /\ returned[1].dns_record_ip # returned[1].current_ip
                        <=> dns_record_info.content # current_ip

C20_Witness ==
    /\ pc = "returned" /\ cyc.writes = 1 /\ cyc.accepted
    /\ returned[1].synced /\ returned[1].dns_record_ip # returned[1].current_ip
    /\ remote.content = returned[1].current_ip

-----------------------------------------------------------------------------
(* Further properties of the reconcile cycle *)

\* C21: the synced value of a cycle that wrote nothing is true exactly when
\* the record read has the resolved address and the configured proxied
\* flag, and a cycle writes only to a record that fails that test; a record
\* with the resolved address and another proxied flag, read by a manual
\* cycle or with auto-update on, is written with its own address and the
\* configured proxied flag.
C21_SyncedNeedsAddressAndProxied ==
    Decided =>
        /\ pc = "returned" /\ cyc.writes = 0
            => returned[1].synced
                 = (dns_record_info.content = current_ip
                    /\ dns_record_info.proxied = config.proxied)
        /\ cyc.writes = 1
            => ~(dns_record_info.content = current_ip
                 /\ dns_record_info.proxied = config.proxied)
        /\ (dns_record_info.content = current_ip
             /\ dns_record_info.proxied # config.proxied
             /\ (is_manual_sync \/ cyc.decided_auto = Some(TRUE)))
            => /\ cyc.writes = 1
               /\ cyc.written[1].content = dns_record_info.content
               /\ cyc.written[1].proxied = config.proxied

C21_Witness ==
    /\ Decided /\ dns_record_info.content = current_ip
    /\ dns_record_info.proxied /\ ~config.proxied
    /\ cyc.writes = 1 /\ ~cyc.written[1].proxied
    /\ is_manual_sync /\ cyc.decided_auto = Some(FALSE)

\* A response of the record listing that yields no record.
NoRecordIn(resp) ==
    resp.err \/ resp.status # 200 \/ ~resp.success \/ resp.result = << >>

\* The step ends the cycle as failed with no write and no notification.
FailsWithoutCalls ==
    /\ pc' = "raised"
    /\ cyc'.writes = 0 /\ put_request' = None
    /\ cyc'.telegram_calls = 0 /\ cyc'.discord_calls = 0

\* C22: a cycle whose record read is answered by a transport error, a
\* status other than 200, a cleared success flag or an empty result list
\* ends as a failed cycle with no write and no notification issued,
\* whatever the manual flag and the auto-update setting: no step that does
\* anything else is the handling of such an answer.
C22_RecordReadFailureStopsCycle ==
    [][pc = "get_record" /\ ~FailsWithoutCalls
        => ~\E resp \in RecordResponses :
                NoRecordIn(resp) /\ RecordResponse(resp)]_vars

C22_Witness ==
    /\ pc = "raised" /\ cyc.failed_at = "record"
    /\ cyc.ip_calls = 1 /\ cyc.reads = 1 /\ cyc.writes = 0 /\ NoNotifications
    /\ is_manual_sync /\ auto_update_enabled /\ remote.content # current_ip

\* The message holds the address a.
Contains(message, a) == \E i \in DOMAIN message : message[i] = a

\* C23: a notification call is made only in a cycle whose one write the
\* provider has confirmed, and after it; when such a cycle returns, a
\* channel that is enabled and has its credentials has got exactly one call
\* and any other channel none; every call carries a message with the
\* resolved address and the address the record had when it was read.
C23_NotificationsFollowWrites ==
    /\ cyc.telegram_calls \in {0, 1} /\ cyc.discord_calls \in {0, 1}
    /\ ~NoNotifications
        => /\ cyc.writes = 1 /\ cyc.accepted
           /\ pc \in {"telegram", "discord", "returned"}
    /\ pc = "returned" /\ cyc.writes = 1
        => /\ cyc.telegram_calls = 1
                <=> /\ config.notify_telegram
                    /\ config.telegram_chat_id # ""
                    /\ config.telegram_bot_token # ""
           /\ cyc.discord_calls = 1
                <=> config.notify_discord /\ config.discord_webhook_url # ""
    /\ cyc.telegram_calls = 1
        => /\ cyc.telegram_text # None
           /\ Contains(cyc.telegram_text[1], current_ip)
           /\ Contains(cyc.telegram_text[1], dns_record_info.content)
    /\ cyc.discord_calls = 1
        => /\ cyc.discord_content # None
           /\ Contains(cyc.discord_content[1], current_ip)
           /\ Contains(cyc.discord_content[1], dns_record_info.content)

C23_Witness ==
    /\ pc = "returned" /\ cyc.writes = 1 /\ cyc.accepted
    /\ cyc.discord_calls = 1 /\ cyc.telegram_calls = 0 /\ config.notify_telegram
    /\ dns_record_info.content # current_ip

\* C24: the start of a cycle leaves the manual flag cleared, also of a cycle
\* that fails at once; a step that fails a manual cycle, and the
\* coordinator's taking of the failure, do not set it again; a cycle that
\* starts with the flag cleared is not manual, and a cycle that is not
\* manual and decides with auto-update off writes nothing.
C24_FailedCycleConsumesManualRequest ==
    /\ [](Decided /\ ~is_manual_sync /\ cyc.decided_auto = Some(FALSE)
            => cyc.writes = 0 /\ put_request = None)
    /\ [][/\ CycleStarts => ~manual_sync_requested'
          /\ is_manual_sync /\ pc' = "raised"
                => (manual_sync_requested' => manual_sync_requested)
          /\ pc = "raised" /\ Finish
                => manual_sync_requested' = manual_sync_requested
          /\ CycleStarts /\ ~manual_sync_requested => ~is_manual_sync']_vars

C24_Witness ==
    /\ pc = "raised" /\ cyc.failed_at = "write"
    /\ is_manual_sync /\ ~manual_sync_requested /\ ~auto_update_enabled

\* C25: a cycle that returns has set last_sync_time to the current time
\* when it was manual or decided with auto-update on, and has left it as it
\* was otherwise; no other step changes it; once set it is never None again
\* and never earlier than it was.
C25_LastSyncTimeChangesOnlyOnSuccess ==
    /\ [](pc = "returned"
            => last_sync_time
                 = IF is_manual_sync \/ cyc.decided_auto = Some(TRUE)
                   THEN Some(now) ELSE cyc.start_lst)
    /\ [][/\ last_sync_time' # last_sync_time
                => /\ pc # "returned" /\ pc' = "returned"
                   /\ is_manual_sync' \/ cyc'.decided_auto = Some(TRUE)
          /\ last_sync_time # None
                => last_sync_time' # None /\ last_sync_time'[1] >= last_sync_time[1]
         ]_vars

C25_Witness ==
    /\ pc = "returned" /\ ~is_manual_sync /\ cyc.decided_auto = Some(FALSE)
    /\ last_sync_time # None /\ last_sync_time # Some(now) /\ ~returned[1].synced

====
